---- MODULE Spec2Model ----
(***************************************************************************)
(* Smart Glove demo page (glove.js): the GATT characteristic value codec,  *)
(* the characteristic registry, the log accumulator and the connection     *)
(* lifecycle that drives them, as a state machine.                         *)
(*                                                                         *)
(* Ordered JavaScript Maps are sequences of entries in insertion order.    *)
(* A DataView is a sequence of bytes (0..255); index i of the DataView is  *)
(* element i+1 of the sequence.  A decoded number is the exact decimal     *)
(* [m, e] standing for m * 10^e.                                           *)
(* Promise callbacks and DOM events are delivered in any order, and the    *)
(* device delivers the event that onDisconnect is registered for.  The     *)
(* peripheral exposes read + notify characteristics only, so the write     *)
(* registry (writeCharacteristicList, onClick) stays empty and is left out.*)
(***************************************************************************)
EXTENDS Integers, Sequences, FiniteSets, TLC

(***************************************************************************)
(* Program constants                                                       *)
(***************************************************************************)
PRES_DESCRIPTOR_LENGTH == 7

BLE_FORMAT_BOOLEAN == 1
BLE_FORMAT_UINT8 == 4
BLE_FORMAT_UINT16 == 6
BLE_FORMAT_UINT32 == 8
BLE_FORMAT_SINT8 == 12
BLE_FORMAT_SINT16 == 14
BLE_FORMAT_SINT32 == 16
BLE_FORMAT_FLOAT32 == 20

\* BLE_UNITS: unit code -> label (0x2700 unitless, 0x2713 m/s2, ...); the
\* label of 0x272F is spelled as the source file spells it
BLE_UNITS ==
    (9984 :> "") @@ (10003 :> "m/s2") @@ (10016 :> "rad") @@ (10020 :> "Pa") @@
    (10024 :> "V") @@ (10029 :> "uT") @@ (10031 :> "Â°C") @@ (10051 :> "rad/s") @@
    (10157 :> "%") @@ (10180 :> "ppm") @@ (10181 :> "ppb")

(***************************************************************************)
(* Bounds of the model                                                     *)
(***************************************************************************)
\* number of clock advances explored (the clock counts seconds)
MaxClock == 1
\* number of setInterval calls explored
MaxTimers == 2
\* number of connection attempts (bluetoothConnect calls that pass the guards)
MaxAttempts == 2

(***************************************************************************)
(* The peripheral: two read characteristics, as in the end-to-end example  *)
(***************************************************************************)
Uuids == {"2a19", "2a6e"}

ServiceOf(uuid) == IF uuid = "2a19" THEN "Battery" ELSE "Environmental Sensor"

NameOf(uuid) == IF uuid = "2a19" THEN "Level" ELSE "Temperature"

\* the presentation descriptor the peripheral holds for a characteristic:
\* format, exponent, unit (LE), namespace, description (LE)
FullDescriptor(uuid) ==
    IF uuid = "2a19"
    THEN <<BLE_FORMAT_UINT8, 0, 173, 39, 1, 0, 0>>
    ELSE <<BLE_FORMAT_SINT16, 254, 47, 39, 1, 0, 0>>

\* what a read of the descriptor may deliver: all of it, or a truncated value
Descriptors(uuid) ==
    { FullDescriptor(uuid), SubSeq(FullDescriptor(uuid), 1, 6) }

\* value payloads the peripheral delivers in reads and notifications:
\* battery level 80 or 81 %, temperature 23.45 degrees (2345, little endian)
Buffers(uuid) == IF uuid = "2a19" THEN { <<80>>, <<81>> } ELSE { <<41, 9>> }

(***************************************************************************)
(* DataView accessors                                                      *)
(***************************************************************************)
getUint8(x, i) == x[i + 1]

getInt8(x, i) == IF x[i + 1] >= 128 THEN x[i + 1] - 256 ELSE x[i + 1]

getUint16(x, i) == x[i + 1] + 256 * x[i + 2]

getInt16(x, i) ==
    IF x[i + 2] >= 128
    THEN x[i + 1] + 256 * (x[i + 2] - 256)
    ELSE x[i + 1] + 256 * x[i + 2]

(***************************************************************************)
(* Presentation descriptor decoder                                         *)
(***************************************************************************)
Undefined == [undefined |-> TRUE]

\* a readPresInfo that reads the exponent as an unsigned byte
readPresInfo_unsignedExponent(dataView) ==
    IF Len(dataView) < PRES_DESCRIPTOR_LENGTH
    THEN Undefined
    ELSE [ format   |-> getUint8(dataView, 0),
           exponent |-> getUint8(dataView, 1),
           unit     |-> getUint16(dataView, 2) ]

\* a readPresInfo that accepts a descriptor one byte short
readPresInfo_acceptsSix(dataView) ==
    IF Len(dataView) < PRES_DESCRIPTOR_LENGTH - 1
    THEN Undefined
    ELSE [ format   |-> getUint8(dataView, 0),
           exponent |-> getInt8(dataView, 1),
           unit     |-> getUint16(dataView, 2) ]

readPresInfo(dataView) ==
    IF Len(dataView) < PRES_DESCRIPTOR_LENGTH
    THEN Undefined
    ELSE [ format   |-> getUint8(dataView, 0),
           exponent |-> getInt8(dataView, 1),
           unit     |-> getUint16(dataView, 2) ]

getUnitString(presInfo) ==
    IF presInfo.unit \in DOMAIN BLE_UNITS THEN BLE_UNITS[presInfo.unit] ELSE ""

(***************************************************************************)
(* Natural numbers of any size: limbs to the base 10000, least significant *)
(* first, no leading zero limb (zero is the empty sequence).  Sums and     *)
(* products are formed limb by limb, without recursion over the limbs.     *)
(***************************************************************************)
BigBase == 10000

BigNorm(a) ==
    LET used == { i \in 1..Len(a) : a[i] # 0 }
    IN  IF used = {} THEN << >>
        ELSE SubSeq(a, 1, CHOOSE i \in used : \A j \in used : j <= i)

RECURSIVE BigOfInt(_)
BigOfInt(n) == IF n = 0 THEN << >> ELSE <<n % BigBase>> \o BigOfInt(n \div BigBase)

Limb(a, i) == IF i <= Len(a) THEN a[i] ELSE 0

\* limbs s[i] < 2 * 10000: the carry into limb i comes from the nearest lower
\* limb that overflows, through limbs that a carry fills up
CarryInto(s, i) ==
    \E j \in 1..(i - 1) :
        /\ s[j] >= BigBase
        /\ \A k \in (j + 1)..(i - 1) : s[k] = BigBase - 1

Carried(s) ==
    BigNorm([i \in DOMAIN s |-> (s[i] + IF CarryInto(s, i) THEN 1 ELSE 0) % BigBase])

BigAdd(a, b) ==
    Carried([i \in 1..((IF Len(a) > Len(b) THEN Len(a) ELSE Len(b)) + 1) |->
                Limb(a, i) + Limb(b, i)])

\* a * 10000^n
BigShiftLimbs(a, n) ==
    IF a = << >> THEN a ELSE [i \in 1..n |-> 0] \o a

\* a without its n lowest limbs
BigDropLimbs(a, n) ==
    IF n >= Len(a) THEN << >> ELSE SubSeq(a, n + 1, Len(a))

\* the column sums of the long multiplication of a and b; they stay below
\* 2^31 when one factor has at most 21 limbs
Columns(a, b) ==
    [c \in 1..(Len(a) + Len(b)) |->
        LET lo == IF c + 1 - Len(b) > 1 THEN c + 1 - Len(b) ELSE 1
            hi == IF c < Len(a) THEN c ELSE Len(a)
            F[i \in (lo - 1)..hi] ==
                IF i < lo THEN 0 ELSE F[i - 1] + a[i] * b[c + 1 - i]
        IN  F[hi]]

\* the digit to the base 10000 that counts 10000^d, of every column sum
Part(col, d) ==
    BigNorm([c \in DOMAIN col |-> (col[c] \div (BigBase ^ d)) % BigBase])

Gather(col) ==
    BigAdd(BigAdd(Part(col, 0), BigShiftLimbs(Part(col, 1), 1)),
           BigShiftLimbs(Part(col, 2), 2))

\* a * b for b of at most 21 limbs
BigMulShort(a, b) ==
    IF a = << >> \/ b = << >> THEN << >> ELSE Gather(Columns(a, b))

\* a * b, 21 limbs of b at a time
RECURSIVE BigMul(_, _)
BigMul(a, b) ==
    IF Len(b) <= 21 THEN BigMulShort(a, b)
    ELSE BigAdd(BigMul(a, SubSeq(b, 1, 21)),
                BigShiftLimbs(BigMul(a, SubSeq(b, 22, Len(b))), 21))

\* -1, 0, 1 as a < b, a = b, a > b
BigCmp(a, b) ==
    IF Len(a) < Len(b) THEN 0 - 1
    ELSE IF Len(a) > Len(b) THEN 1
    ELSE LET differ == { i \in 1..Len(a) : a[i] # b[i] }
             top    == CHOOSE i \in differ : \A j \in differ : j <= i
         IN  IF differ = {} THEN 0
             ELSE IF a[top] < b[top] THEN 0 - 1 ELSE 1

BigOdd(a) == a # << >> /\ a[1] % 2 = 1

\* h * h * extra
Squared(h, extra) == BigMul(BigMul(h, h), extra)

\* base^k by squaring, for a base that fits a limb
RECURSIVE BigPow(_, _)
BigPow(base, k) ==
    IF k = 0 THEN <<1>>
    ELSE Squared(BigPow(base, k \div 2), IF k % 2 = 1 THEN <<base>> ELSE <<1>>)

\* powers of two and of five are used over and over: 2^k and 5^k as the
\* product of a tabulated power of 2^16 or 5^13 and a power that fits an
\* integer
Pow2Table == [i \in 0..79 |-> BigPow(2, 16 * i)]

Pow5Table == [i \in 0..59 |-> BigPow(5, 13 * i)]

BigPow2(k) == BigMulShort(Pow2Table[k \div 16], BigOfInt(2 ^ (k % 16)))

BigPow5(k) == BigMulShort(Pow5Table[k \div 13], BigOfInt(5 ^ (k % 13)))

BigPow10(k) == BigShiftLimbs(BigOfInt(10 ^ (k % 4)), k \div 4)

\* floor(a / t) for t = 1, 2, 10, 100 or 1000 (t divides 10000)
BigDivSmall(a, t) ==
    BigNorm([i \in 1..Len(a) |-> (a[i] + BigBase * (Limb(a, i + 1) % t)) \div t])

\* floor(a / 10^k)
BigDivPow10(a, k) == BigDivSmall(BigDropLimbs(a, k \div 4), 10 ^ (k % 4))

\* a is a multiple of 10^k
BigDividesPow10(a, k) ==
    /\ \A i \in 1..(k \div 4) : Limb(a, i) = 0
    /\ Limb(a, k \div 4 + 1) % (10 ^ (k % 4)) = 0

\* the decimal digit of a that counts 10^k
BigDigitAt(a, k) == (Limb(a, k \div 4 + 1) \div (10 ^ (k % 4))) % 10

\* the number of decimal digits of a (0 for zero)
BigDigitCount(a) ==
    IF a = << >> THEN 0
    ELSE 4 * (Len(a) - 1)
           + (IF a[Len(a)] >= 1000 THEN 4 ELSE IF a[Len(a)] >= 100 THEN 3
              ELSE IF a[Len(a)] >= 10 THEN 2 ELSE 1)

\* the decimal digits of a, most significant first (none for zero)
BigDigits(a) == [i \in 1..BigDigitCount(a) |-> BigDigitAt(a, BigDigitCount(a) - i)]

\* the number of binary digits of n, 0 <= n < 2^31
RECURSIVE BitLength(_)
BitLength(n) == IF n = 0 THEN 0 ELSE 1 + BitLength(n \div 2)

\* the number of binary digits of a # 0, or one or two less: from the two
\* leading limbs, a limb being worth log2(10000) = 13.28771... bits
LeadBits(a) ==
    IF Len(a) = 1 THEN BitLength(a[1])
    ELSE BitLength(a[Len(a)] * BigBase + a[Len(a) - 1])
           + ((Len(a) - 2) * 1328771) \div 100000

\* low, low + 1 or low + 2 as a compares with above / 2 and with above
Settle(a, low, above) ==
    IF BigCmp(a, BigDivSmall(above, 2)) < 0 THEN low
    ELSE IF BigCmp(a, above) < 0 THEN low + 1
    ELSE low + 2

SettleAt(a, low) == Settle(a, low, BigPow2(low + 1))

\* the number of binary digits of a (0 for zero)
BigBitLength(a) == IF a = << >> THEN 0 ELSE SettleAt(a, LeadBits(a))

\* q or q + 1: q is a quotient, first the first decimal digit dropped from
\* it, exact tells that nothing but zeros followed that digit
Bump(q, first, exact, toEven) ==
    IF first > 5 \/ (first = 5 /\ (~exact \/ ~toEven \/ BigOdd(q)))
    THEN BigAdd(q, <<1>>)
    ELSE q

\* scaled / 10^s to the nearest integer
RoundDrop(scaled, s, sticky, toEven) ==
    Bump(BigDivPow10(scaled, s), BigDigitAt(scaled, s - 1),
         BigDividesPow10(scaled, s - 1) /\ ~sticky, toEven)

\* a / 2^s = a * 5^s / 10^s to the nearest integer; a tie, when nothing but
\* a was dropped (~sticky), goes to the even one when toEven and up otherwise
BigShiftRightRound(a, s, sticky, toEven) ==
    IF s = 0 THEN a ELSE RoundDrop(BigMul(a, BigPow5(s)), s, sticky, toEven)

\* a * 2^k to the nearest integer
ShiftBinary(a, k, sticky, toEven) ==
    IF k >= 0 THEN BigMul(a, BigPow2(k))
    ELSE BigShiftRightRound(a, 0 - k, sticky, toEven)

(***************************************************************************)
(* Number values: IEEE 754 binary64.  A finite value is                    *)
(* (-1)^neg * m * 2^e with 2^52 <= m < 2^53, or zero (m = 0, e = 0).       *)
(* The values met here stay clear of the subnormal range and of overflow.  *)
(***************************************************************************)
Finite(neg, m, e) ==
    [kind |-> "number", special |-> "", neg |-> neg, m |-> m, e |-> e]

Special(name) ==
    [kind |-> "number", special |-> name, neg |-> FALSE, m |-> << >>, e |-> 0]

Bool(b) == [kind |-> "boolean", b |-> b]

Str(s) == [kind |-> "string", s |-> s]

\* 2^52 = 4503599627370496 and 2^53 = 9007199254740992
Two52 == <<496, 2737, 5996, 4503>>

Two53 == <<992, 4740, 1992, 9007>>

\* rounding up may have reached 2^53
Renormalize(neg, m, e) ==
    IF m = Two53 THEN Finite(neg, Two52, e + 1) ELSE Finite(neg, m, e)

Round53(neg, n, e, sticky, bits) ==
    Renormalize(neg, ShiftBinary(n, 53 - bits, sticky, TRUE), e + bits - 53)

\* n * 2^e (and, with sticky, a little more: then n >= 2^53) rounded to 53
\* significant bits, to nearest, ties to even
RoundToDouble(neg, n, e, sticky) ==
    IF n = << >> THEN Finite(neg, << >>, 0)
    ELSE Round53(neg, n, e, sticky, BigBitLength(n))

\* the Number value of an integer -2^31 < n < 2^31
NumberOfInt(n) ==
    RoundToDouble(n < 0, BigOfInt(IF n < 0 THEN 0 - n ELSE n), 0, FALSE)

IsZero(x) == x.special = "" /\ x.m = << >>

Negative(x) == IF x.special = "" THEN x.neg ELSE x.special = "-Infinity"

\* x * y
Multiply(x, y) ==
    IF x.special = "NaN" \/ y.special = "NaN" THEN Special("NaN")
    ELSE IF x.special # "" \/ y.special # ""
    THEN IF IsZero(x) \/ IsZero(y) THEN Special("NaN")
         ELSE IF Negative(x) = Negative(y) THEN Special("Infinity")
         ELSE Special("-Infinity")
    ELSE RoundToDouble(x.neg # y.neg, BigMul(x.m, y.m), x.e + y.e, FALSE)

\* 10^k = n * 2^e, but for a fraction dropped from n when sticky; for k < 0
\* n is 2^bits / 10^-k with enough bits to leave n more than 53
Power10(k) ==
    IF k >= 0 THEN [n |-> BigPow5(k), e |-> k, sticky |-> FALSE]
    ELSE [n |-> BigDivPow10(BigPow2(58 + ((0 - k) * 3322) \div 1000), 0 - k),
          e |-> 0 - (58 + ((0 - k) * 3322) \div 1000),
          sticky |-> TRUE]

RoundPower(p) == RoundToDouble(FALSE, p.n, p.e, p.sticky)

\* 10 ** k for an integer k: the double nearest to 10^k
Exponentiate10(k) == RoundPower(Power10(k))

(***************************************************************************)
(* Text: a sequence of one-character strings, joined into a string at the  *)
(* end, so that the characters of a rendered number can be counted.        *)
(***************************************************************************)
RECURSIVE CharsText(_, _, _)
CharsText(c, lo, hi) ==
    IF lo > hi THEN ""
    ELSE IF lo = hi THEN c[lo]
    ELSE CharsText(c, lo, (lo + hi) \div 2) \o CharsText(c, (lo + hi) \div 2 + 1, hi)

Text(c) == CharsText(c, 1, Len(c))

DigitChars(d) == [i \in 1..Len(d) |-> ToString(d[i])]

Zeros(n) == [i \in 1..n |-> "0"]

SpecialChars(name) ==
    CASE name = "NaN"       -> <<"N", "a", "N">>
      [] name = "Infinity"  -> <<"I", "n", "f", "i", "n", "i", "t", "y">>
      [] OTHER              -> <<"-", "I", "n", "f", "i", "n", "i", "t", "y">>

\* the decimals that read back as the double m * 2^e = W * 10^-s, whose
\* upper neighbour is G * 10^-s away: those c * 10^-s with 4c from
\* 4W - below to 4W + 2G, the ends included for an even m
Readback(m, s, G, W) ==
    [ s |-> s, W |-> W, D |-> BigDigitCount(W),
      W4 |-> BigMulShort(W, <<4>>),
      top |-> BigAdd(BigMulShort(W, <<4>>), BigMulShort(G, <<2>>)),
      below |-> IF m = Two52 THEN G ELSE BigMulShort(G, <<2>>),
      inclusive |-> ~BigOdd(m) ]

Between(r, lower, upper) ==
    IF r.inclusive THEN lower >= 0 /\ upper <= 0 ELSE lower > 0 /\ upper < 0

In4(r, c4) == Between(r, BigCmp(BigAdd(c4, r.below), r.W4), BigCmp(c4, r.top))

\* c * 10^-s reads back as the double
In(r, c) == In4(r, BigMulShort(c, <<4>>))

\* W cut down and up to k digits
Lo(r, k) ==
    IF r.D <= k THEN r.W
    ELSE BigMul(BigDivPow10(r.W, r.D - k), BigPow10(r.D - k))

Hi(r, k) == IF r.D <= k THEN r.W ELSE BigAdd(Lo(r, k), BigPow10(r.D - k))

\* the least number of digits from..to that will do: when k do, so do more
RECURSIVE Least(_, _, _)
Least(r, from, to) ==
    IF from = to THEN from
    ELSE IF In(r, Lo(r, (from + to) \div 2)) \/ In(r, Hi(r, (from + to) \div 2))
    THEN Least(r, from, (from + to) \div 2)
    ELSE Least(r, (from + to) \div 2 + 1, to)

\* of lo and hi the one that reads back, the nearer one when both do, the
\* one with the even digit when they are as near
Nearest(r, lo, hi, k) ==
    IF ~In(r, hi) THEN lo
    ELSE IF ~In(r, lo) THEN hi
    ELSE IF BigCmp(BigMulShort(r.W, <<2>>), BigAdd(lo, hi)) < 0 THEN lo
    ELSE IF BigCmp(BigMulShort(r.W, <<2>>), BigAdd(lo, hi)) > 0 THEN hi
    ELSE IF BigDigitAt(lo, r.D - k) % 2 = 0 THEN lo ELSE hi

ShortestAt(r, k) == BigDigits(Nearest(r, Lo(r, k), Hi(r, k), k))

\* the digits of the shortest decimal, trailing zeros included
Shortest(r) == ShortestAt(r, Least(r, 1, 17))

\* "e+x" or "e-x"
PowerChars(x) ==
    <<"e", IF x < 0 THEN "-" ELSE "+">>
        \o DigitChars(BigDigits(BigOfInt(IF x < 0 THEN 0 - x ELSE x)))

\* the k significant digits d of a value 0.d * 10^n, laid out as
\* Number::toString does
Layout(d, k, n) ==
    IF k <= n /\ n <= 21 THEN d \o Zeros(n - k)
    ELSE IF 0 < n /\ n <= 21 THEN SubSeq(d, 1, n) \o <<".">> \o SubSeq(d, n + 1, k)
    ELSE IF 0 - 6 < n /\ n <= 0 THEN <<"0", ".">> \o Zeros(0 - n) \o d
    ELSE IF k = 1 THEN d \o PowerChars(n - 1)
    ELSE <<d[1], ".">> \o SubSeq(d, 2, k) \o PowerChars(n - 1)

Significant(all) ==
    CHOOSE i \in 1..Len(all) : all[i] # 0 /\ \A j \in (i + 1)..Len(all) : all[j] = 0

LayoutDigits(all, s) ==
    Layout(DigitChars(SubSeq(all, 1, Significant(all))), Significant(all), Len(all) - s)

ReadbackChars(r) == LayoutDigits(Shortest(r), r.s)

ScaledChars(m, s, G) == ReadbackChars(Readback(m, s, G, BigMul(m, G)))

\* Number::toString of a finite, nonzero magnitude m * 2^e: the shortest
\* decimal digits that read back as the same double
MagnitudeChars(m, e) ==
    IF e < 0 THEN ScaledChars(m, 0 - e, BigPow5(0 - e))
    ELSE ScaledChars(m, 0, BigPow2(e))

SignChars(x) == IF x.neg /\ ~IsZero(x) THEN <<"-">> ELSE << >>

\* Number::toString
NumberToStringChars(x) ==
    IF x.special # "" THEN SpecialChars(x.special)
    ELSE IF IsZero(x) THEN <<"0">>
    ELSE SignChars(x) \o MagnitudeChars(x.m, x.e)

\* |x| >= 10^21, for a finite x
AtLeast1e21(x) ==
    x.e >= 0 /\ BigCmp(BigMul(x.m, BigPow2(x.e)), BigPow10(21)) >= 0

\* the digits d of n with zeros put in front to make at least f + 1, and
\* the point before the last f
PointChars(d, f) ==
    IF f = 0 THEN d
    ELSE IF Len(d) <= f
    THEN <<"0", ".">> \o Zeros(f - Len(d)) \o d
    ELSE SubSeq(d, 1, Len(d) - f) \o <<".">> \o SubSeq(d, Len(d) - f + 1, Len(d))

ZeroOr(d) == IF d = << >> THEN <<"0">> ELSE d

\* the integer n for which n / 10^f - |x| is as close to zero as possible,
\* the larger n when there are two
FixedInteger(x, f) == ShiftBinary(BigMul(x.m, BigPow10(f)), x.e, FALSE, FALSE)

\* Number.prototype.toFixed(fractionDigits), 0 <= fractionDigits <= 100
toFixedChars(x, fractionDigits) ==
    IF x.special # "" THEN SpecialChars(x.special)
    ELSE IF AtLeast1e21(x) THEN SignChars(x) \o MagnitudeChars(x.m, x.e)
    ELSE SignChars(x)
           \o PointChars(ZeroOr(DigitChars(BigDigits(FixedInteger(x, fractionDigits)))),
                         fractionDigits)

toFixed(x, fractionDigits) == Text(toFixedChars(x, fractionDigits))

(***************************************************************************)
(* DataView accessors of 32 bits: they return Number values                *)
(***************************************************************************)
\* the bytes x[i+1..i+4] as an unsigned little-endian integer
UnsignedOf(x, i) ==
    BigAdd(BigMulShort(BigOfInt(x[i + 3] + 256 * x[i + 4]), BigOfInt(65536)),
           BigOfInt(x[i + 1] + 256 * x[i + 2]))

getUint32(x, i) == RoundToDouble(FALSE, UnsignedOf(x, i), 0, FALSE)

\* two's complement: with the top bit set the value is -(~u + 1)
getInt32(x, i) ==
    RoundToDouble(x[i + 4] >= 128,
                  IF x[i + 4] >= 128
                  THEN BigAdd(UnsignedOf([k \in 1..Len(x) |-> 255 - x[k]], i), <<1>>)
                  ELSE UnsignedOf(x, i),
                  0, FALSE)

\* IEEE 754 binary32, little endian; every binary32 value is a double
getFloat32(x, i) ==
    LET sign == x[i + 4] \div 128
        expo == (x[i + 4] % 128) * 2 + x[i + 3] \div 128
        frac == (x[i + 3] % 128) * 65536 + x[i + 2] * 256 + x[i + 1]
    IN  IF expo = 255
        THEN IF frac # 0 THEN Special("NaN")
             ELSE IF sign = 1 THEN Special("-Infinity") ELSE Special("Infinity")
        ELSE RoundToDouble(sign = 1,
                           BigOfInt(IF expo = 0 THEN frac ELSE 8388608 + frac),
                           IF expo = 0 THEN 0 - 149 ELSE expo - 150, FALSE)

\* rawVal * 10 ** exponent (lines 376-378).  The language leaves the result
\* of ** implementation-approximated; it is taken here as the double nearest
\* to the power of ten.
Scale(rawVal, exponent) == Multiply(rawVal, Exponentiate10(exponent))

(***************************************************************************)
(* Value codec and formatter                                               *)
(***************************************************************************)
SupportedFormats ==
    { BLE_FORMAT_BOOLEAN, BLE_FORMAT_UINT8, BLE_FORMAT_UINT16, BLE_FORMAT_UINT32,
      BLE_FORMAT_SINT8, BLE_FORMAT_SINT16, BLE_FORMAT_SINT32, BLE_FORMAT_FLOAT32 }

\* the length the switch of readValue sets for a format
FormatLength(format) ==
    CASE format \in {BLE_FORMAT_BOOLEAN, BLE_FORMAT_UINT8, BLE_FORMAT_SINT8} -> 1
      [] format \in {BLE_FORMAT_UINT16, BLE_FORMAT_SINT16} -> 2
      [] OTHER -> 4

\* a decodeFunc that reads the signed formats as unsigned
decodeFunc_unsigned(format, x) ==
    CASE format = BLE_FORMAT_BOOLEAN -> Bool(getUint8(x, 0) # 0)
      [] format = BLE_FORMAT_UINT8   -> NumberOfInt(getUint8(x, 0))
      [] format = BLE_FORMAT_UINT16  -> NumberOfInt(getUint16(x, 0))
      [] format = BLE_FORMAT_UINT32  -> getUint32(x, 0)
      [] format = BLE_FORMAT_SINT8   -> NumberOfInt(getUint8(x, 0))
      [] format = BLE_FORMAT_SINT16  -> NumberOfInt(getUint16(x, 0))
      [] format = BLE_FORMAT_SINT32  -> getUint32(x, 0)
      [] OTHER                       -> getFloat32(x, 0)

\* the decodeFunc the switch of readValue sets for a format
decodeFunc(format, x) ==
    CASE format = BLE_FORMAT_BOOLEAN -> Bool(getUint8(x, 0) # 0)
      [] format = BLE_FORMAT_UINT8   -> NumberOfInt(getUint8(x, 0))
      [] format = BLE_FORMAT_UINT16  -> NumberOfInt(getUint16(x, 0))
      [] format = BLE_FORMAT_UINT32  -> getUint32(x, 0)
      [] format = BLE_FORMAT_SINT8   -> NumberOfInt(getInt8(x, 0))
      [] format = BLE_FORMAT_SINT16  -> NumberOfInt(getInt16(x, 0))
      [] format = BLE_FORMAT_SINT32  -> getInt32(x, 0)
      [] OTHER                       -> getFloat32(x, 0)

\* a readValue that applies the exponent to a Boolean as to the numbers
readValue_scalesBoolean(dataView, presInfo) ==
    IF presInfo.format \notin SupportedFormats THEN NumberOfInt(0)
    ELSE IF Len(dataView) < FormatLength(presInfo.format) THEN NumberOfInt(0)
    ELSE IF presInfo.format = BLE_FORMAT_BOOLEAN
         THEN Scale(NumberOfInt(IF getUint8(dataView, 0) # 0 THEN 1 ELSE 0),
                    presInfo.exponent)
         ELSE Scale(decodeFunc(presInfo.format, dataView), presInfo.exponent)

\* a readValue whose switch falls through to UInt8 for an unknown format
readValue_defaultsToUint8(dataView, presInfo) ==
    IF Len(dataView) < FormatLength(presInfo.format) THEN NumberOfInt(0)
    ELSE IF presInfo.format = BLE_FORMAT_BOOLEAN
         THEN decodeFunc(presInfo.format, dataView)
         ELSE Scale(decodeFunc(IF presInfo.format \in SupportedFormats
                               THEN presInfo.format ELSE BLE_FORMAT_UINT8,
                               dataView),
                    presInfo.exponent)

readValue(dataView, presInfo) ==
    IF presInfo.format \notin SupportedFormats THEN NumberOfInt(0)
    ELSE IF Len(dataView) < FormatLength(presInfo.format) THEN NumberOfInt(0)
    ELSE IF presInfo.format = BLE_FORMAT_BOOLEAN
         THEN decodeFunc(presInfo.format, dataView)
         ELSE Scale(decodeFunc(presInfo.format, dataView), presInfo.exponent)

formatValue(val, presInfo) ==
    IF presInfo.format = BLE_FORMAT_BOOLEAN THEN val
    ELSE LET negated == 0 - presInfo.exponent
             numDecimals == IF negated < 0 THEN 0
                            ELSE IF negated > 100 THEN 100 ELSE negated
         IN  Str(toFixed(val, numDecimals))

\* string concatenation ('' + v) of a JavaScript value
ToStr(v) ==
    CASE v.kind = "string"  -> v.s
      [] v.kind = "boolean" -> IF v.b THEN "true" ELSE "false"
      [] OTHER              -> Text(NumberToStringChars(v))

(***************************************************************************)
(* Ordered Map operations (insertion order; set on a present key keeps     *)
(* the key's position)                                                     *)
(***************************************************************************)
MapKeys(map) == [i \in 1..Len(map) |-> map[i].key]

MapHas(map, key) == \E i \in 1..Len(map) : map[i].key = key

MapGet(map, key) == map[CHOOSE i \in 1..Len(map) : map[i].key = key].val

\* a set that deletes a present key and inserts it again at the end
MapSet_reinserts(map, key, val) ==
    Append(SelectSeq(map, LAMBDA entry : entry.key # key),
           [key |-> key, val |-> val])

MapSet(map, key, val) ==
    IF MapHas(map, key)
    THEN [i \in 1..Len(map) |->
            IF map[i].key = key THEN [key |-> key, val |-> val] ELSE map[i]]
    ELSE Append(map, [key |-> key, val |-> val])

(***************************************************************************)
(* Registry and log operations                                             *)
(***************************************************************************)
\* a cacheValue that sets the entry of the Map whether the id is known or not
cacheValue_createsRecord(list, characteristicUuid, valStr) ==
    MapSet(list, characteristicUuid,
           IF MapHas(list, characteristicUuid)
           THEN [MapGet(list, characteristicUuid) EXCEPT !.lastEntry = valStr]
           ELSE [lastEntry |-> valStr])

\* a cacheValue that re-inserts the record, moving it to the end of the Map
cacheValue_reinserts(list, characteristicUuid, valStr) ==
    IF MapHas(list, characteristicUuid)
    THEN Append(SelectSeq(list, LAMBDA entry : entry.key # characteristicUuid),
                [key |-> characteristicUuid,
                 val |-> [MapGet(list, characteristicUuid)
                             EXCEPT !.lastEntry = valStr]])
    ELSE list

cacheValue(list, characteristicUuid, valStr) ==
    IF MapHas(list, characteristicUuid)
    THEN MapSet(list, characteristicUuid,
                [MapGet(list, characteristicUuid) EXCEPT !.lastEntry = valStr])
    ELSE list

\* updateVal finds no cell with the characteristic's id in the document
NoTargetCell(area, characteristicUuid) == characteristicUuid \notin area

\* val of updateVal (lines 309-310), worked out once for every presentation
\* and payload the peripheral can deliver
valStr ==
    LET presentations == { readPresInfo(d) : d \in UNION { Descriptors(u) : u \in Uuids } }
                             \ { Undefined }
        payloads == UNION { Buffers(u) : u \in Uuids }
    IN  [presInfo \in presentations |->
            [dataView \in payloads |->
                formatValue(readValue(dataView, presInfo), presInfo)]]

\* the registry after updateVal; with no target cell the handler ends in the
\* console.log of line 307, before anything is stored
updateVal(list, area, characteristicUuid, dataView, presInfo) ==
    IF NoTargetCell(area, characteristicUuid)
    THEN list
    ELSE cacheValue(list, characteristicUuid,
                    IF presInfo \in DOMAIN valStr /\ dataView \in DOMAIN valStr[presInfo]
                    THEN valStr[presInfo][dataView]
                    ELSE formatValue(readValue(dataView, presInfo), presInfo))

\* line 307 reads the undeclared identifier uuid
updateValResult(area, characteristicUuid) ==
    IF NoTargetCell(area, characteristicUuid) THEN "ReferenceError" ELSE ""

doPad(num) == IF num < 10 THEN "0" \o ToString(num) ELSE ToString(num)

\* the wall clock starts at 2025/01/01 00:00:59 and counts seconds; ticks
\* between two advances fall within the same second
SecondOfDay(now) == 59 + now

printTimestamp(now) ==
    LET sec == SecondOfDay(now)
    IN  "2025/" \o doPad(1) \o "/" \o doPad(1) \o " "
          \o doPad((sec \div 3600) % 24) \o ":"
          \o doPad((sec \div 60) % 60) \o ":"
          \o doPad(sec % 60)

\* a logEntry that stores the first characteristic's value in every column
logEntryOf_firstValue(list) ==
    [i \in 1..Len(list) |-> [key |-> list[i].key, val |-> list[1].val.lastEntry]]

\* the logEntry Map that updateLog fills from the registry
logEntryOf(list) ==
    [i \in 1..Len(list) |-> [key |-> list[i].key, val |-> list[i].val.lastEntry]]

\* an updateLog that puts the row of a new timestamp in front of the others
updateLog_prepends(theLog, list, now) ==
    IF MapHas(theLog, printTimestamp(now))
    THEN MapSet(theLog, printTimestamp(now), logEntryOf(list))
    ELSE << [key |-> printTimestamp(now), val |-> logEntryOf(list)] >> \o theLog

\* an updateLog that adds a row at every tick
updateLog_appends(theLog, list, now) ==
    Append(theLog, [key |-> printTimestamp(now), val |-> logEntryOf(list)])

updateLog(theLog, list, now) == MapSet(theLog, printTimestamp(now), logEntryOf(list))

\* csv text as the sequence of the pieces appended to it; '' appends nothing
Piece(str) == IF str = "" THEN << >> ELSE <<str>>

RECURSIVE Concat(_)
Concat(seqs) == IF seqs = << >> THEN << >> ELSE Head(seqs) \o Concat(Tail(seqs))

\* a printLog that writes nothing, not even the comma, for a missing value
printLog_skipsMissing(list, theLog) ==
    LET line1 == <<"Timestamp", ",">>
                   \o Concat([i \in 1..Len(list) |->
                                Piece(list[i].val.serviceName) \o <<",">>])
        line2 == <<",">>
                   \o Concat([i \in 1..Len(list) |->
                                Piece(list[i].val.name) \o <<",">>])
        line3 == <<",">>
                   \o Concat([i \in 1..Len(list) |->
                                Piece(getUnitString(list[i].val.presInfo)) \o <<",">>])
        row(r) == <<"\n">> \o Piece(theLog[r].key) \o <<",">>
                   \o Concat([i \in 1..Len(list) |->
                                IF MapHas(theLog[r].val, list[i].key)
                                THEN Piece(ToStr(MapGet(theLog[r].val, list[i].key)))
                                       \o <<",">>
                                ELSE << >>])
    IN  line1 \o <<"\n">> \o line2 \o <<"\n">> \o line3
          \o Concat([r \in 1..Len(theLog) |-> row(r)]) \o <<"\n">>

printLog(list, theLog) ==
    LET line1 == <<"Timestamp", ",">>
                   \o Concat([i \in 1..Len(list) |->
                                Piece(list[i].val.serviceName) \o <<",">>])
        line2 == <<",">>
                   \o Concat([i \in 1..Len(list) |->
                                Piece(list[i].val.name) \o <<",">>])
        line3 == <<",">>
                   \o Concat([i \in 1..Len(list) |->
                                Piece(getUnitString(list[i].val.presInfo)) \o <<",">>])
        row(r) == <<"\n">> \o Piece(theLog[r].key) \o <<",">>
                   \o Concat([i \in 1..Len(list) |->
                                (IF MapHas(theLog[r].val, list[i].key)
                                 THEN Piece(ToStr(MapGet(theLog[r].val, list[i].key)))
                                 ELSE << >>) \o <<",">>])
    IN  line1 \o <<"\n">> \o line2 \o <<"\n">> \o line3
          \o Concat([r \in 1..Len(theLog) |-> row(r)]) \o <<"\n">>

(***************************************************************************)
(* State                                                                   *)
(***************************************************************************)
VARIABLES
    readCharacteristicList, \* ordered Map uuid -> characteristicInfo
    log,                    \* ordered Map timestamp -> logEntry
    logTimer,               \* the interval id logStart stored last (0: undefined)
    timers,                 \* the ids of the intervals the browser is running
    timerCount,             \* interval ids handed out so far
    bleServer,              \* "undefined" or "server"
    connected,              \* bleServer.connected: the GATT link is up
    bttnConnect,            \* bttnConnect.disabled
    bttnLogStart,           \* bttnLogStart.disabled
    bttnLogStop,            \* bttnLogStop.disabled
    servicesArea,           \* ids of the value cells attached to the document
    chains,                 \* pending promises of bluetoothConnect: stage -> how many
    attempts,               \* bluetoothConnect calls that opened a connection
    tasks,                  \* pending promises of characteristic discovery (stale:
                            \* begun before the registry was last cleared)
    listeners,              \* characteristics with onNotify registered
    now,                    \* the wall clock, in seconds
    lastOutcome,            \* history: how the last step ended ("": nothing to note)
    stopped,                \* history: logStop has returned and no logStart followed
    snapshots,              \* history: timestamp -> registry and clock at the tick that wrote it
    firstSeen,              \* history: uuids in order of registration since the clear
    descOf,                 \* history: uuid -> descriptor bytes it was registered from
    probe                   \* codec harness: the call made last, its arguments, its result

vars ==
    << readCharacteristicList, log, logTimer, timers, timerCount, bleServer,
       connected, bttnConnect, bttnLogStart, bttnLogStop, servicesArea, chains, attempts,
       tasks, listeners, now, lastOutcome, stopped, snapshots, firstSeen,
       descOf, probe >>

EmptyFcn == [x \in {} |-> x]

ChainStages == {"requestDevice", "connect", "services"}

\* a chain of bluetoothConnect moves from one promise to the next
ChainStep(from, to) ==
    [stage \in ChainStages |->
        chains[stage] - (IF stage = from THEN 1 ELSE 0) + (IF stage = to THEN 1 ELSE 0)]

\* the page after the script has run
PageLoaded ==
    /\ readCharacteristicList = << >>
    /\ log = << >>
    /\ logTimer = 0
    /\ timers = {}
    /\ timerCount = 0
    /\ bleServer = "undefined"
    /\ connected = FALSE
    /\ bttnConnect = FALSE
    /\ bttnLogStart = TRUE
    /\ bttnLogStop = TRUE
    /\ servicesArea = {}
    /\ chains = [stage \in ChainStages |-> 0]
    /\ attempts = 0
    /\ tasks = {}
    /\ listeners = {}
    /\ now = 0
    /\ lastOutcome = ""
    /\ stopped = FALSE
    /\ snapshots = EmptyFcn
    /\ firstSeen = << >>
    /\ descOf = EmptyFcn

\* no codec call made
NoCall == [call |-> "", args |-> << >>, result |-> Undefined]

Init ==
    /\ PageLoaded
    /\ probe = NoCall

(***************************************************************************)
(* Log accumulator                                                         *)
(***************************************************************************)
\* a logStart that keeps the rows of the log
logStart_keepsLog ==
    /\ ~bttnLogStart
    /\ timerCount < MaxTimers
    /\ bttnLogStart' = TRUE
    /\ bttnLogStop' = FALSE
    /\ timerCount' = timerCount + 1
    /\ logTimer' = timerCount + 1
    /\ timers' = timers \cup {timerCount + 1}
    /\ lastOutcome' = IF log # << >> THEN "cleared" ELSE ""
    /\ stopped' = FALSE
    /\ snapshots' = EmptyFcn
    /\ UNCHANGED << readCharacteristicList, log, bleServer, connected,
                    bttnConnect, servicesArea, chains, attempts, tasks,
                    listeners, now, firstSeen, descOf, probe >>

\* click on bttnLogStart (a disabled button dispatches no click)
logStart ==
    /\ ~bttnLogStart
    /\ timerCount < MaxTimers
    /\ bttnLogStart' = TRUE
    /\ bttnLogStop' = FALSE
    /\ log' = << >>
    /\ timerCount' = timerCount + 1
    /\ logTimer' = timerCount + 1
    /\ timers' = timers \cup {timerCount + 1}
    /\ lastOutcome' = IF log # << >> THEN "cleared" ELSE ""
    /\ stopped' = FALSE
    /\ snapshots' = EmptyFcn
    /\ UNCHANGED << readCharacteristicList, bleServer, connected,
                    bttnConnect, servicesArea, chains, attempts, tasks,
                    listeners, now, firstSeen, descOf, probe >>

\* clearInterval(id): the interval id, if running, fires no more
clearInterval(running, id) == running \ {id}

\* the end of logStop: a log with rows is printed and handed to saveLog
logStopOutcome(theLog) == IF Len(theLog) > 0 THEN "saved" ELSE ""

\* a logStop that empties the log after the export
logStop_clearsLog ==
    /\ ~bttnLogStop
    /\ bttnLogStart' = FALSE
    /\ bttnLogStop' = TRUE
    /\ timers' = clearInterval(timers, logTimer)
    /\ log' = << >>
    /\ lastOutcome' = ""
    /\ stopped' = TRUE
    /\ UNCHANGED << timerCount, readCharacteristicList, logTimer, bleServer,
                    connected, bttnConnect, servicesArea, chains, attempts,
                    tasks, listeners, now, snapshots, firstSeen, descOf,
                    probe >>

\* click on bttnLogStop
logStop ==
    /\ ~bttnLogStop
    /\ bttnLogStart' = FALSE
    /\ bttnLogStop' = TRUE
    /\ timers' = clearInterval(timers, logTimer)
    /\ lastOutcome' = logStopOutcome(log)
    /\ stopped' = TRUE
    /\ UNCHANGED << timerCount, readCharacteristicList, log, logTimer,
                    bleServer, connected, bttnConnect, servicesArea, chains,
                    attempts, tasks, listeners, now, snapshots, firstSeen,
                    descOf, probe >>

\* an interval fires: updateLog
Tick ==
    /\ \E id \in timers :
         /\ log' = updateLog(log, readCharacteristicList, now)
         /\ lastOutcome' = IF MapHas(log, printTimestamp(now))
                           THEN "overwrote" ELSE ""
    /\ snapshots' = (printTimestamp(now) :>
                        [list |-> readCharacteristicList, order |-> firstSeen,
                         at |-> now])
                      @@ snapshots
    /\ UNCHANGED << readCharacteristicList, logTimer, timers, timerCount,
                    bleServer, connected, bttnConnect, bttnLogStart,
                    bttnLogStop, servicesArea, chains, attempts, tasks,
                    listeners, now, stopped, firstSeen, descOf, probe >>

\* the wall clock advances by a second
AdvanceClock ==
    /\ now < MaxClock
    /\ now' = now + 1
    /\ lastOutcome' = ""
    /\ UNCHANGED << readCharacteristicList, log, logTimer, timers,
                    timerCount, bleServer, connected, bttnConnect,
                    bttnLogStart, bttnLogStop, servicesArea, chains,
                    attempts, tasks, listeners, stopped, snapshots,
                    firstSeen, descOf, probe >>

(***************************************************************************)
(* Connection lifecycle                                                    *)
(***************************************************************************)
\* click on bttnConnect
bluetoothConnect ==
    /\ ~bttnConnect
    /\ attempts < MaxAttempts
    /\ IF bleServer = "server" /\ connected
       THEN /\ lastOutcome' = ""
            /\ UNCHANGED << readCharacteristicList, bttnConnect, chains,
                            attempts, tasks, firstSeen, descOf, probe >>
       ELSE /\ readCharacteristicList' = << >>
            /\ bttnConnect' = TRUE
            /\ attempts' = attempts + 1
            /\ chains' = ChainStep("", "requestDevice")
            /\ lastOutcome' = ""
            /\ firstSeen' = << >>
            /\ descOf' = EmptyFcn
            /\ tasks' = { [t EXCEPT !.stale = TRUE] : t \in tasks }
    /\ UNCHANGED << log, logTimer, timers, timerCount, bleServer, connected,
                    bttnLogStart, bttnLogStop, servicesArea, listeners, now,
                    stopped, snapshots, probe >>

\* requestDevice resolved: .then(device => ...)
ResolveDevice ==
    /\ chains["requestDevice"] > 0
    /\ bttnLogStart' = FALSE
    /\ bttnLogStop' = TRUE
    /\ chains' = ChainStep("requestDevice", "connect")
    /\ lastOutcome' = ""
    /\ UNCHANGED << attempts, readCharacteristicList, log, logTimer, timers,
                    timerCount, bleServer, connected, bttnConnect,
                    servicesArea, tasks, listeners, now, stopped, snapshots,
                    firstSeen, descOf, probe >>

\* device.gatt.connect() resolved: .then(gattServer => ...)
ResolveConnect ==
    /\ chains["connect"] > 0
    /\ connected' = TRUE
    /\ bleServer' = "server"
    /\ chains' = ChainStep("connect", "services")
    /\ lastOutcome' = ""
    /\ UNCHANGED << attempts, readCharacteristicList, log, logTimer, timers,
                    timerCount, bttnConnect, bttnLogStart, bttnLogStop,
                    servicesArea, tasks, listeners, now, stopped, snapshots,
                    firstSeen, descOf, probe >>

NewTask(uuid) ==
    [stale |-> FALSE, uuid |-> uuid, stage |-> "pres", desc |-> << >>,
     presInfo |-> Undefined, attached |-> TRUE]

\* getPrimaryServices resolved: initServices shows each service and asks for
\* its characteristics.  The callbacks that follow and touch no state
\* (initCharacteristics, the read of the name descriptor, the property test
\* that sends a read + notify characteristic to initReadCharacteristic) are
\* folded into this step: the task then waits for the presentation descriptor.
initServices ==
    /\ chains["services"] > 0
    /\ chains' = ChainStep("services", "")
    /\ tasks' = tasks \cup { NewTask(uuid) : uuid \in Uuids }
    /\ lastOutcome' = ""
    /\ UNCHANGED << attempts, readCharacteristicList, log, logTimer, timers,
                    timerCount, bleServer, connected, bttnConnect,
                    bttnLogStart, bttnLogStop, servicesArea, listeners, now,
                    stopped, snapshots, firstSeen, descOf, probe >>

\* what onDisconnect does to the log controls: logStop(), then
\* disableButton(bttnLogStart) and enableButton(bttnConnect)
OnDisconnectBody ==
    /\ servicesArea' = {}
    /\ tasks' = { [t EXCEPT !.attached = FALSE] : t \in tasks }
    /\ timers' = clearInterval(timers, logTimer)
    /\ bttnLogStop' = TRUE
    /\ bttnLogStart' = TRUE
    /\ bttnConnect' = FALSE
    /\ stopped' = TRUE

\* a disconnect handler that also empties the registry
onDisconnect_clearsRegistry ==
    /\ connected
    /\ connected' = FALSE
    /\ OnDisconnectBody
    /\ readCharacteristicList' = << >>
    /\ lastOutcome' = ""
    /\ UNCHANGED << timerCount, log, logTimer, bleServer, chains, attempts,
                    listeners, now, snapshots, firstSeen, descOf, probe >>

\* the link drops and the device dispatches the disconnect event
onDisconnect ==
    /\ connected
    /\ connected' = FALSE
    /\ OnDisconnectBody
    /\ lastOutcome' = logStopOutcome(log)
    /\ UNCHANGED << timerCount, readCharacteristicList, log, logTimer,
                    bleServer, chains, attempts, listeners, now, snapshots,
                    firstSeen, descOf, probe >>

\* a promise of the connection chain rejected: .catch(error => ...)
CatchError(stage) ==
    /\ chains[stage] > 0
    /\ chains' = ChainStep(stage, "")
    /\ IF bleServer = "server" /\ connected
       THEN \* bleServer.disconnect() dispatches the disconnect event
            /\ connected' = FALSE
            /\ OnDisconnectBody
            /\ lastOutcome' = logStopOutcome(log)
       ELSE /\ bttnConnect' = FALSE
            /\ lastOutcome' = ""
            /\ UNCHANGED << connected, servicesArea, tasks, timers,
                            bttnLogStop, bttnLogStart, stopped, probe >>
    /\ UNCHANGED << readCharacteristicList, log, logTimer, timerCount,
                    bleServer, attempts, listeners, now, snapshots,
                    firstSeen, descOf, probe >>

(***************************************************************************)
(* Characteristic discovery                                                *)
(***************************************************************************)
\* the presentation descriptor was read: .then(presDataView => ...)
ResolvePresentation(t, presDataView) ==
    /\ t.stage = "pres"
    /\ LET presInfo == readPresInfo(presDataView)
       IN  IF presInfo # Undefined
           THEN tasks' = (tasks \ {t}) \cup
                           { [t EXCEPT !.stage = "value", !.desc = presDataView,
                                       !.presInfo = presInfo] }
           ELSE tasks' = tasks \ {t}
    /\ lastOutcome' = ""
    /\ UNCHANGED << readCharacteristicList, log, logTimer, timers,
                    timerCount, bleServer, connected, bttnConnect,
                    bttnLogStart, bttnLogStop, servicesArea, chains,
                    attempts, listeners, now, stopped, snapshots, firstSeen,
                    descOf, probe >>

characteristicInfo(t) ==
    [ name        |-> NameOf(t.uuid),
      serviceName |-> ServiceOf(t.uuid),
      presInfo    |-> t.presInfo,
      lastEntry   |-> Str("") ]

\* showReadCharacteristic appends the value cell to the task's table
showReadCharacteristic(area, t) == IF t.attached THEN area \cup {t.uuid} ELSE area

Range(seq) == { seq[i] : i \in 1..Len(seq) }

\* an initReadCharacteristic that registers the record and shows the cell,
\* and leaves the first value to the notification that comes next
initReadCharacteristic_registersOnly(t, valDataView) ==
    /\ t.stage = "value"
    /\ readCharacteristicList' =
           MapSet(readCharacteristicList, t.uuid, characteristicInfo(t))
    /\ servicesArea' = showReadCharacteristic(servicesArea, t)
    /\ listeners' = listeners \cup {t.uuid}
    /\ lastOutcome' = ""
    /\ tasks' = tasks \ {t}
    /\ firstSeen' = IF t.uuid \in Range(firstSeen) THEN firstSeen
                    ELSE Append(firstSeen, t.uuid)
    /\ descOf' = (t.uuid :> t.desc) @@ descOf
    /\ UNCHANGED << log, logTimer, timers, timerCount, bleServer, connected,
                    bttnConnect, bttnLogStart, bttnLogStop, chains, attempts,
                    now, stopped, snapshots, probe >>

\* the initial value was read: .then(valDataView => ...) registers the
\* characteristic, shows it, stores the value and subscribes
initReadCharacteristic(t, valDataView) ==
    /\ t.stage = "value"
    /\ LET list == MapSet(readCharacteristicList, t.uuid, characteristicInfo(t))
           area == showReadCharacteristic(servicesArea, t)
       IN  /\ servicesArea' = area
           /\ readCharacteristicList' =
                  updateVal(list, area, t.uuid, valDataView, t.presInfo)
           /\ listeners' = IF updateValResult(area, t.uuid) = ""
                           THEN listeners \cup {t.uuid} ELSE listeners
           /\ lastOutcome' = IF /\ updateValResult(area, t.uuid) = ""
                                 /\ MapHas(readCharacteristicList, t.uuid)
                              THEN "reregistered"
                              ELSE updateValResult(area, t.uuid)
    /\ tasks' = tasks \ {t}
    /\ firstSeen' = IF t.uuid \in Range(firstSeen) THEN firstSeen
                    ELSE Append(firstSeen, t.uuid)
    /\ descOf' = (t.uuid :> t.desc) @@ descOf
    /\ UNCHANGED << log, logTimer, timers, timerCount, bleServer, connected,
                    bttnConnect, bttnLogStart, bttnLogStop, chains, attempts,
                    now, stopped, snapshots, probe >>

\* characteristicvaluechanged
onNotify(uuid, value) ==
    /\ uuid \in listeners
    /\ IF ~MapHas(readCharacteristicList, uuid)
       THEN /\ lastOutcome' = ""
            /\ UNCHANGED readCharacteristicList
       ELSE LET charInfo == MapGet(readCharacteristicList, uuid)
            IN  /\ readCharacteristicList' =
                       updateVal(readCharacteristicList, servicesArea, uuid, value,
                                 charInfo.presInfo)
                /\ lastOutcome' = updateValResult(servicesArea, uuid)
    /\ UNCHANGED << log, logTimer, timers, timerCount, bleServer, connected,
                    bttnConnect, bttnLogStart, bttnLogStop, servicesArea,
                    chains, attempts, tasks, listeners, now, stopped,
                    snapshots, firstSeen, descOf, probe >>

(***************************************************************************)
(* Specification                                                           *)
(***************************************************************************)
Next ==
    \/ logStart
    \/ logStop
    \/ Tick
    \/ AdvanceClock
    \/ bluetoothConnect
    \/ ResolveDevice
    \/ ResolveConnect
    \/ initServices
    \/ \E stage \in ChainStages : CatchError(stage)
    \/ onDisconnect
    \/ \E t \in tasks : \E d \in Descriptors(t.uuid) : ResolvePresentation(t, d)
    \/ \E t \in tasks : \E v \in Buffers(t.uuid) : initReadCharacteristic(t, v)
    \/ \E u \in Uuids : \E v \in Buffers(u) : onNotify(u, v)

Spec == Init /\ [][Next]_vars

(***************************************************************************)
(* The codec on its own: readPresInfo, readValue, formatValue and          *)
(* cacheValue are called in the order of updateVal, on descriptors and     *)
(* payloads beyond the ones the example peripheral delivers.               *)
(***************************************************************************)
\* format codes: the eight of the switch of readValue, and two it lacks
\* (0x19 utf8s, 0x00 reserved)
ProbeFormats == SupportedFormats \cup {25, 0}

\* exponent bytes: 0, 1, 20, 127, -128, -101, -100, -20, -2, -1
ProbeExponents == {0, 1, 20, 127, 128, 155, 156, 236, 254, 255}

\* unit codes 0x27AD (percentage) and 0x272F (degree Celsius), little endian
ProbeUnits == { <<173, 39>>, <<47, 39>> }

\* namespace and description, one byte more, one byte less
ProbeTails == { <<1, 0, 0>>, <<2, 255, 7>>, <<1, 0, 0, 9>>, <<1, 0>> }

\* every format and exponent with one unit and tail, every unit and tail
\* with one format
ProbeDescriptors ==
    { <<f, e>> \o u \o t :
        <<f, e, u, t>> \in
            { q \in ProbeFormats \X ProbeExponents \X ProbeUnits \X ProbeTails :
                \/ q[1] = BLE_FORMAT_UINT8
                \/ q[3] = <<173, 39>> /\ q[4] = <<1, 0, 0>> } }

\* payloads of 0 to 5 bytes: 3, 255, 2345, 65535 and -32768 as 16 bits,
\* 12 with one byte too many, the largest 32 bits, -2^31 (a negative zero as
\* binary32), and the binary32 values 1.0, NaN and Infinity
ProbeBuffers ==
    { << >>, <<0>>, <<3>>, <<255>>, <<41, 9>>, <<255, 255>>, <<0, 128>>,
      <<1, 2, 3>>, <<12, 0, 0, 0, 99>>, <<255, 255, 255, 255>>, <<0, 0, 0, 128>>,
      <<0, 0, 128, 63>>, <<0, 0, 192, 127>>, <<0, 0, 128, 127>> }

\* registries cacheValue is called on: none, and the two characteristics of
\* the peripheral with a value shown already
ProbeRegistries ==
    { << >>,
      << [key |-> "2a19",
          val |-> [name |-> "Level", serviceName |-> "Battery",
                   presInfo |-> readPresInfo(FullDescriptor("2a19")),
                   lastEntry |-> Str("80")]],
         [key |-> "2a6e",
          val |-> [name |-> "Temperature", serviceName |-> "Environmental Sensor",
                   presInfo |-> readPresInfo(FullDescriptor("2a6e")),
                   lastEntry |-> Str("")]] >> }

\* ids cacheValue is called with: the two of the peripheral and a third
ProbeUuids == Uuids \cup {"2a1c"}

CodecInit ==
    /\ PageLoaded
    /\ probe \in { [call |-> "", args |-> <<d>>, result |-> Undefined] :
                      d \in ProbeDescriptors }

CallReadPresInfo ==
    /\ probe.call = ""
    /\ probe' = [call |-> "readPresInfo", args |-> probe.args,
                 result |-> readPresInfo(probe.args[1])]
    /\ UNCHANGED << readCharacteristicList, log, logTimer, timers, timerCount,
                    bleServer, connected, bttnConnect, bttnLogStart,
                    bttnLogStop, servicesArea, chains, attempts, tasks,
                    listeners, now, lastOutcome, stopped, snapshots,
                    firstSeen, descOf >>

\* a presentation that is undefined is never handed to readValue
CallReadValue(dataView) ==
    /\ probe.call = "readPresInfo"
    /\ probe.result # Undefined
    /\ probe' = [call |-> "readValue", args |-> <<dataView, probe.result>>,
                 result |-> readValue(dataView, probe.result)]
    /\ UNCHANGED << readCharacteristicList, log, logTimer, timers, timerCount,
                    bleServer, connected, bttnConnect, bttnLogStart,
                    bttnLogStop, servicesArea, chains, attempts, tasks,
                    listeners, now, lastOutcome, stopped, snapshots,
                    firstSeen, descOf >>

CallFormatValue ==
    /\ probe.call = "readValue"
    /\ probe' = [call |-> "formatValue", args |-> <<probe.result, probe.args[2]>>,
                 result |-> formatValue(probe.result, probe.args[2])]
    /\ UNCHANGED << readCharacteristicList, log, logTimer, timers, timerCount,
                    bleServer, connected, bttnConnect, bttnLogStart,
                    bttnLogStop, servicesArea, chains, attempts, tasks,
                    listeners, now, lastOutcome, stopped, snapshots,
                    firstSeen, descOf >>

CallCacheValue(list, characteristicUuid) ==
    /\ probe.call = "formatValue"
    /\ probe' = [call |-> "cacheValue",
                 args |-> <<list, characteristicUuid, probe.result>>,
                 result |-> cacheValue(list, characteristicUuid, probe.result)]
    /\ UNCHANGED << readCharacteristicList, log, logTimer, timers, timerCount,
                    bleServer, connected, bttnConnect, bttnLogStart,
                    bttnLogStop, servicesArea, chains, attempts, tasks,
                    listeners, now, lastOutcome, stopped, snapshots,
                    firstSeen, descOf >>

CodecNext ==
    \/ CallReadPresInfo
    \/ \E dataView \in ProbeBuffers : CallReadValue(dataView)
    \/ CallFormatValue
    \/ \E list \in ProbeRegistries : \E u \in ProbeUuids : CallCacheValue(list, u)

CodecSpec == CodecInit /\ [][CodecNext]_vars

(***************************************************************************)
(* The log over a longer stretch of the clock: the page with the           *)
(* peripheral connected and both characteristics registered, then clicks   *)
(* on the log buttons, ticks, notifications and the clock                  *)
(***************************************************************************)
\* seconds the clock advances in this specification
MaxLogClock == 3

\* the record of a characteristic whose value cell shows the string shown
registered(uuid, shown) ==
    [key |-> uuid,
     val |-> [name |-> NameOf(uuid), serviceName |-> ServiceOf(uuid),
              presInfo |-> readPresInfo(FullDescriptor(uuid)),
              lastEntry |-> shown]]

\* connected, both characteristics registered and shown, nothing logged yet
LogInit ==
    /\ readCharacteristicList =
          << registered("2a19", Str("80")), registered("2a6e", Str("23.45")) >>
    /\ log = << >>
    /\ logTimer = 0
    /\ timers = {}
    /\ timerCount = 0
    /\ bleServer = "server"
    /\ connected = TRUE
    /\ bttnConnect = TRUE
    /\ bttnLogStart = FALSE
    /\ bttnLogStop = TRUE
    /\ servicesArea = Uuids
    /\ chains = [stage \in ChainStages |-> 0]
    /\ attempts = 1
    /\ tasks = {}
    /\ listeners = Uuids
    /\ now = 0
    /\ lastOutcome = ""
    /\ stopped = FALSE
    /\ snapshots = EmptyFcn
    /\ firstSeen = <<"2a19", "2a6e">>
    /\ descOf = [u \in Uuids |-> FullDescriptor(u)]
    /\ probe = NoCall

\* the wall clock advances by a second
LogAdvanceClock ==
    /\ now < MaxLogClock
    /\ now' = now + 1
    /\ lastOutcome' = ""
    /\ UNCHANGED << readCharacteristicList, log, logTimer, timers,
                    timerCount, bleServer, connected, bttnConnect,
                    bttnLogStart, bttnLogStop, servicesArea, chains,
                    attempts, tasks, listeners, stopped, snapshots,
                    firstSeen, descOf, probe >>

LogNext ==
    \/ logStart
    \/ logStop
    \/ Tick
    \/ LogAdvanceClock
    \/ \E v \in Buffers("2a19") : onNotify("2a19", v)

LogSpec == LogInit /\ [][LogNext]_vars

(***************************************************************************)
(* Properties: log accumulator                                             *)
(***************************************************************************)
\* C1: a logStart invoked while an interval of an earlier logStart is still
\* running leaves the log's rows unchanged and creates no further interval.
C1_DuplicateStartIgnored ==
    [][(logStart /\ timers # {}) => (log' = log /\ timers' = timers)]_vars

\* C2: between the return of a logStop and the next logStart no step
\* modifies the log.
C2_NoTickAfterStop ==
    [][(stopped /\ stopped') => log' = log]_vars

\* C3 as stated: after onDisconnect has run the registry holds no records.
C3_RegistryEmptyAfterDisconnect ==
    [][onDisconnect => readCharacteristicList' = << >>]_vars

\* C3: onDisconnect leaves the registry's records in place; the registry is
\* emptied by the next bluetoothConnect that opens a connection attempt.
C3_RegistryClearedOnConnect ==
    [][ /\ onDisconnect => readCharacteristicList' = readCharacteristicList
        /\ (bluetoothConnect /\ ~(bleServer = "server" /\ connected))
              => readCharacteristicList' = << >> ]_vars

\* both characteristics registered, then the link dropped: the display is
\* torn down, the connect button is back, the records are still there
C3_Witness ==
    /\ bleServer = "server"
    /\ ~connected
    /\ servicesArea = {}
    /\ ~bttnConnect
    /\ bttnLogStart
    /\ tasks = {}
    /\ Len(readCharacteristicList) = 2

\* C4 as stated: in the state right after logStop the log holds no rows.
C4_LogEmptyAfterStop ==
    [][logStop => log' = << >>]_vars

\* C4: logStop leaves the rows of the log in place; it is logStart that
\* empties the log.
C4_LogClearedOnStart ==
    [][ /\ logStop => log' = log
        /\ logStart => log' = << >> ]_vars

\* logStop has returned and the rows it exported are still in the log
C4_Witness ==
    /\ stopped
    /\ ~bttnLogStart
    /\ bttnLogStop
    /\ logTimer \notin timers
    /\ Len(log) = 2

\* the registry as it was at the tick that last wrote the row of a timestamp
SnapshotOf(timestamp) == snapshots[timestamp].list

\* C5: every row of the log has the ids that were registered at the tick that
\* last wrote it, each with the lastEntry the characteristic had at that
\* tick, whatever notifications were delivered before and after.
C5_RowsAreSnapshots ==
    \A r \in 1..Len(log) :
        /\ log[r].key \in DOMAIN snapshots
        /\ LET snap == SnapshotOf(log[r].key)
               row  == log[r].val
           IN  /\ Range(MapKeys(row)) = Range(MapKeys(snap))
               /\ Len(row) = Len(snap)
               /\ \A i \in 1..Len(snap) :
                     MapGet(row, snap[i].key) = snap[i].val.lastEntry

\* a row captured both characteristics with battery level 80; a later
\* notification has moved the registry's lastEntry to 81
C5_Witness ==
    /\ Len(log) >= 1
    /\ Range(MapKeys(log[1].val)) = Uuids
    /\ MapGet(log[1].val, "2a19") = Str("80")
    /\ MapGet(log[1].val, "2a6e") = Str("23.45")
    /\ MapHas(readCharacteristicList, "2a19")
    /\ MapGet(readCharacteristicList, "2a19").lastEntry = Str("81")

\* C7: a tick whose timestamp already has a row replaces that row's content
\* by its own snapshot and adds no row; the timestamps of the rows are
\* pairwise distinct and are the distinct timestamps of the ticks since the
\* last logStart.
C7_CollisionKeepsLaterTick ==
    [][Tick =>
         LET timestamp == printTimestamp(now)
         IN  /\ Len(log') = IF MapHas(log, timestamp) THEN Len(log)
                            ELSE Len(log) + 1
             /\ \A r \in 1..Len(log') :
                   log'[r].key = timestamp
                      => log'[r].val = logEntryOf(readCharacteristicList)
             /\ \A r \in 1..Len(log) :
                   log[r].key # timestamp => log'[r] = log[r]
             /\ \A r1, r2 \in 1..Len(log') :
                   log'[r1].key = log'[r2].key => r1 = r2
             /\ { log'[r].key : r \in 1..Len(log') } = DOMAIN snapshots'
             /\ Len(log') = Cardinality(DOMAIN snapshots') ]_vars

\* a second tick within the second 00:01:00 has just replaced the row of the
\* first one: two rows for three ticks, the second row with the later value
C7_Witness ==
    /\ lastOutcome = "overwrote"
    /\ Len(log) = 2
    /\ log[2].key = printTimestamp(now)
    /\ MapHas(log[2].val, "2a19")
    /\ MapGet(log[2].val, "2a19") = Str("81")
    /\ MapHas(log[1].val, "2a19")
    /\ MapGet(log[1].val, "2a19") = Str("80")

(***************************************************************************)
(* Properties: CSV export.  The text is read back the way a CSV reader     *)
(* does: lines end at "\n", fields at ","; the names, units, timestamps    *)
(* and values of the model contain neither.                                *)
(***************************************************************************)
\* the lines of a CSV text from piece i on, each line the sequence of its
\* fields; the text after the last "\n" counts as a line of its own
RECURSIVE ParseCsv(_, _)
ParseCsv(pieces, i) ==
    IF i > Len(pieces) THEN << <<"">> >>
    ELSE LET rest == ParseCsv(pieces, i + 1)
             line == rest[1]
         IN  CASE pieces[i] = "\n" -> << <<"">> >> \o rest
               [] pieces[i] = ","  -> << <<"">> \o line >> \o Tail(rest)
               [] OTHER -> << <<pieces[i] \o line[1]>> \o Tail(line) >> \o Tail(rest)

\* the CSV text printLog yields in the current state, read back
CsvTable == ParseCsv(printLog(readCharacteristicList, log), 1)

\* C6: the registry lists the characteristics in the order of their
\* registration whatever notifications were delivered; every row of the log
\* iterates in the registration order as of its tick; the CSV header and
\* data lines list the columns in the registration order.
C6_RegistrationOrderKept ==
    LET csv == CsvTable
    IN  /\ MapKeys(readCharacteristicList) = firstSeen
        /\ \A r \in 1..Len(log) :
              MapKeys(log[r].val) = snapshots[log[r].key].order
        /\ \A k \in 1..Len(firstSeen) :
              /\ csv[1][k + 1] = ServiceOf(firstSeen[k])
              /\ csv[2][k + 1] = NameOf(firstSeen[k])
              /\ \A r \in 1..Len(log) :
                    MapHas(log[r].val, firstSeen[k])
                       => csv[3 + r][k + 1] = ToStr(MapGet(log[r].val, firstSeen[k]))

\* battery (A) then temperature (B) registered, a row captured, a
\* notification delivered to A, a second row captured
C6_Witness ==
    /\ firstSeen = <<"2a19", "2a6e">>
    /\ Len(log) = 2
    /\ MapKeys(log[1].val) = <<"2a19", "2a6e">>
    /\ MapKeys(log[2].val) = <<"2a19", "2a6e">>
    /\ MapGet(log[1].val, "2a19") = Str("80")
    /\ MapGet(log[2].val, "2a19") = Str("81")

\* C8: for a log of R rows and a registry of N characteristics printLog
\* yields 3 header lines (service names, characteristic names, units) and
\* then R data lines in log order, every line ended by a newline; field k+1
\* of a data line is the row's value for the k-th registered characteristic
\* when the row has that id and is empty otherwise.
C8_CsvShape ==
    LET N == Len(readCharacteristicList)
        R == Len(log)
        csv == CsvTable
    IN  /\ Len(csv) = 3 + R + 1
        /\ csv[3 + R + 1] = <<"">>
        /\ \A l \in 1..(3 + R) : Len(csv[l]) = N + 2 /\ csv[l][N + 2] = ""
        /\ csv[1][1] = "Timestamp"
        /\ csv[2][1] = ""
        /\ csv[3][1] = ""
        /\ \A k \in 1..N :
              LET info == readCharacteristicList[k].val
              IN  /\ csv[1][k + 1] = info.serviceName
                  /\ csv[2][k + 1] = info.name
                  /\ csv[3][k + 1] = getUnitString(info.presInfo)
        /\ \A r \in 1..R :
              /\ csv[3 + r][1] = log[r].key
              /\ \A k \in 1..N :
                    LET uuid == readCharacteristicList[k].key
                    IN  csv[3 + r][k + 1] =
                           IF MapHas(log[r].val, uuid)
                           THEN ToStr(MapGet(log[r].val, uuid))
                           ELSE ""

\* logStop has exported two rows for two characteristics; the first row was
\* captured before the second characteristic was registered
C8_Witness ==
    /\ stopped
    /\ Len(log) = 2
    /\ Len(readCharacteristicList) = 2
    /\ ~MapHas(log[1].val, readCharacteristicList[2].key)
    /\ MapHas(log[2].val, readCharacteristicList[2].key)
    /\ CsvTable[4][3] = ""
    /\ CsvTable[5][3] # ""

(***************************************************************************)
(* Properties: error handling                                              *)
(***************************************************************************)
\* C9: a notification for a characteristic that is not in the registry, or
\* whose value cell is not in the document, raises no exception and leaves
\* the registry and the log unchanged.
C9_UnknownTargetAbsorbed ==
    [][\A u \in Uuids : \A v \in Buffers(u) :
          ( /\ onNotify(u, v)
            /\ \/ ~MapHas(readCharacteristicList, u)
               \/ NoTargetCell(servicesArea, u) )
             => /\ lastOutcome' # "ReferenceError"
                /\ readCharacteristicList' = readCharacteristicList
                /\ log' = log ]_vars

\* C10: readPresInfo yields no record for a descriptor shorter than 7 bytes;
\* a characteristic waiting for its first value, and every characteristic of
\* the registry, has the format, exponent and unit of a descriptor of at
\* least 7 bytes.
C10_RegisteredFromFullDescriptor ==
    /\ \A u \in Uuids : \A d \in Descriptors(u) :
          Len(d) < 7 => readPresInfo(d) = Undefined
    /\ \A t \in tasks : t.stage = "value" => Len(t.desc) >= 7
    /\ \A i \in 1..Len(readCharacteristicList) :
          LET uuid == readCharacteristicList[i].key
              info == readCharacteristicList[i].val
          IN  /\ uuid \in DOMAIN descOf
              /\ Len(descOf[uuid]) >= 7
              /\ info.presInfo # Undefined
              /\ info.presInfo.format = descOf[uuid][1]
              /\ info.presInfo.exponent =
                    IF descOf[uuid][2] >= 128 THEN descOf[uuid][2] - 256
                    ELSE descOf[uuid][2]
              /\ info.presInfo.unit = descOf[uuid][3] + 256 * descOf[uuid][4]

\* discovery of the first connection is over: the temperature characteristic
\* is registered, the battery level, whose descriptor came 6 bytes long, is not
C10_Witness ==
    /\ attempts = 1
    /\ connected
    /\ \A stage \in ChainStages : chains[stage] = 0
    /\ tasks = {}
    /\ MapKeys(readCharacteristicList) = <<"2a6e">>
    /\ Len(descOf["2a6e"]) = 7

(***************************************************************************)
(* Properties: value codec                                                 *)
(***************************************************************************)
\* C11: readValue returns the number 0 for a buffer shorter than a
\* supported format requires (1 byte for Boolean, UInt8 and SInt8, 2 for
\* UInt16 and SInt16, 4 for UInt32, SInt32 and Float32) and for every format
\* code it does not support, whatever the length of the buffer.
C11_LenientDecode ==
    probe.call = "readValue" =>
        LET dataView == probe.args[1]
            format   == probe.args[2].format
            required ==
                CASE format \in {BLE_FORMAT_BOOLEAN, BLE_FORMAT_UINT8,
                                 BLE_FORMAT_SINT8} -> 1
                  [] format \in {BLE_FORMAT_UINT16, BLE_FORMAT_SINT16} -> 2
                  [] format \in {BLE_FORMAT_UINT32, BLE_FORMAT_SINT32,
                                 BLE_FORMAT_FLOAT32} -> 4
                  [] OTHER -> 0
        IN  (format \notin SupportedFormats \/ Len(dataView) < required)
                => probe.result = Finite(FALSE, << >>, 0)

\* a three-byte buffer read as UInt32 at exponent -2: one byte short
C11_Witness ==
    /\ probe.call = "readValue"
    /\ probe.args[1] = <<1, 2, 3>>
    /\ probe.args[2].format = BLE_FORMAT_UINT32
    /\ probe.args[2].exponent = 0 - 2
    /\ probe.result = Finite(FALSE, << >>, 0)

\* the bytes as an unsigned little-endian integer
RECURSIVE LittleEndian(_)
LittleEndian(bytes) ==
    IF bytes = << >> THEN << >>
    ELSE BigAdd(BigOfInt(Head(bytes)), BigMulShort(LittleEndian(Tail(bytes)), <<256>>))

IntegerFormats ==
    { BLE_FORMAT_UINT8, BLE_FORMAT_UINT16, BLE_FORMAT_UINT32,
      BLE_FORMAT_SINT8, BLE_FORMAT_SINT16, BLE_FORMAT_SINT32 }

\* the bytes an integer format takes
WidthOf(format) ==
    CASE format \in {BLE_FORMAT_UINT8, BLE_FORMAT_SINT8} -> 1
      [] format \in {BLE_FORMAT_UINT16, BLE_FORMAT_SINT16} -> 2
      [] OTHER -> 4

\* rawInt: sign and magnitude of the first bytes of the buffer, two's
\* complement for the signed formats
RawInt(format, dataView) ==
    LET w == WidthOf(format)
        b == SubSeq(dataView, 1, w)
    IN  IF format \in {BLE_FORMAT_SINT8, BLE_FORMAT_SINT16, BLE_FORMAT_SINT32}
           /\ b[w] >= 128
        THEN [neg |-> TRUE,
              mag |-> BigAdd(LittleEndian([i \in 1..w |-> 255 - b[i]]), <<1>>)]
        ELSE [neg |-> FALSE, mag |-> LittleEndian(b)]

\* the double nearest to (-1)^neg * mag * 10^e
NearestDouble(neg, mag, e) ==
    IF e >= 0 THEN RoundToDouble(neg, BigMul(mag, BigPow10(e)), 0, FALSE)
    ELSE LET bits == 64 - 4 * e
             num  == BigMul(mag, BigPow2(bits))
         IN  RoundToDouble(neg, BigDivPow10(num, 0 - e), 0 - bits,
                           ~BigDividesPow10(num, 0 - e))

\* the finite value x = m * 2^E is the integer (-1)^neg * n
IsInteger(x, neg, n) ==
    IF n = << >> THEN IsZero(x)
    ELSE /\ x.neg = neg
         /\ IF x.e >= 0 THEN BigMul(x.m, BigPow2(x.e)) = n
            ELSE x.m = BigMul(n, BigPow2(0 - x.e))

\* the finite value x is (-1)^neg * mag * 10^e but for 2^-51 of it at most
CloseTo(x, neg, mag, e) ==
    IF mag = << >> THEN IsZero(x)
    ELSE LET a  == BigMul(BigMul(x.m, BigPow2(IF x.e > 0 THEN x.e ELSE 0)),
                          BigPow10(IF e < 0 THEN 0 - e ELSE 0))
             b  == BigMul(BigMul(mag, BigPow2(IF x.e < 0 THEN 0 - x.e ELSE 0)),
                          BigPow10(IF e > 0 THEN e ELSE 0))
             aT == BigMul(a, BigPow2(51))
             bT == BigMul(b, BigPow2(51))
         IN  /\ x.neg = neg
             /\ BigCmp(aT, BigAdd(bT, b)) <= 0
             /\ BigCmp(bT, BigAdd(aT, b)) <= 0

\* readValue was called with an integer format, a buffer of the length the
\* format requires or more, and an exponent from -20 to 20
IntegerDecoded ==
    /\ probe.call = "readValue"
    /\ probe.args[2].format \in IntegerFormats
    /\ Len(probe.args[1]) >= WidthOf(probe.args[2].format)
    /\ probe.args[2].exponent \in (0 - 20)..20

\* C12 as stated: readValue returns rawInt * 10^e, the integer itself for
\* e >= 0 and the quotient rawInt / 10^-e for e < 0 (as far as a double can
\* hold them: the double nearest to that value).
C12_ScaledExactly ==
    IntegerDecoded =>
        LET raw == RawInt(probe.args[2].format, probe.args[1])
        IN  probe.result = NearestDouble(raw.neg, raw.mag, probe.args[2].exponent)

\* C12: readValue returns the floating-point product of rawInt and the
\* double 10 ** e.  For e >= 0 that is the double nearest to rawInt * 10^e,
\* the integer itself when it is below 2^53.  For e < 0 it has the sign of
\* rawInt and is rawInt / 10^-e but for a relative error of 2^-51 at most; it
\* need not be the double nearest to the quotient.
C12_ScaledInFloatingPoint ==
    IntegerDecoded =>
        LET raw == RawInt(probe.args[2].format, probe.args[1])
            e   == probe.args[2].exponent
            n   == BigMul(raw.mag, BigPow10(e))
        IN  /\ probe.result.kind = "number"
            /\ probe.result.special = ""
            /\ CloseTo(probe.result, raw.neg, raw.mag, e)
            /\ e >= 0 => probe.result = NearestDouble(raw.neg, raw.mag, e)
            /\ (e >= 0 /\ BigCmp(n, Two53) < 0) => IsInteger(probe.result, raw.neg, n)

\* UInt8 3 at exponent -1: 3 * 0.1 is 0.30000000000000004, the double next
\* to the one nearest to 3 / 10
C12_Witness ==
    /\ IntegerDecoded
    /\ probe.args[1] = <<3>>
    /\ probe.args[2].format = BLE_FORMAT_UINT8
    /\ probe.args[2].exponent = 0 - 1
    /\ Text(NumberToStringChars(probe.result)) = "0.30000000000000004"
    /\ Text(NumberToStringChars(NearestDouble(FALSE, <<3>>, 0 - 1))) = "0.3"

(***************************************************************************)
(* Properties: formatter                                                   *)
(***************************************************************************)
DecimalDigits == {"0", "1", "2", "3", "4", "5", "6", "7", "8", "9"}

\* the characters are a fixed-point decimal with exactly f digits after the
\* point (and no point for f = 0): an optional sign, one digit or more, then
\* for f > 0 the point and f digits
IsFixedPoint(chars, f) ==
    LET body == IF chars # << >> /\ chars[1] = "-" THEN Tail(chars) ELSE chars
        n    == Len(body)
    IN  IF f = 0
        THEN n >= 1 /\ \A i \in 1..n : body[i] \in DecimalDigits
        ELSE /\ n >= f + 2
             /\ body[n - f] = "."
             /\ \A i \in (1..n) \ {n - f} : body[i] \in DecimalDigits

\* formatValue was called for a numeric format
NumericFormatted ==
    /\ probe.call = "formatValue"
    /\ probe.args[2].format \in SupportedFormats \ {BLE_FORMAT_BOOLEAN}

\* C13: for every numeric format and every exponent e from -128 to 127,
\* formatValue renders the value as a fixed-point decimal with exactly
\* max(0, min(100, -e)) digits after the decimal point.
C13_ExactDecimals ==
    NumericFormatted =>
        LET e     == probe.args[2].exponent
            f     == IF e >= 0 THEN 0 ELSE IF e < 0 - 100 THEN 100 ELSE 0 - e
            chars == toFixedChars(probe.args[1], f)
        IN  /\ probe.result = Str(Text(chars))
            /\ IsFixedPoint(chars, f)

(***************************************************************************)
(* Properties: presentation descriptor decoder                             *)
(***************************************************************************)
\* the first four bytes of a descriptor with the three fields: format as one
\* byte, exponent as one byte in two's complement, unit low byte first
encodePresInfo(presInfo) ==
    << presInfo.format,
       (presInfo.exponent + 256) % 256,
       presInfo.unit % 256,
       presInfo.unit \div 256 >>

\* C14: for a descriptor of 7 bytes or more readPresInfo returns byte 0 as
\* the format, byte 1 as a two's-complement exponent and bytes 2-3 as the
\* little-endian unit, whatever bytes 4-6 (and later ones) hold; encoding the
\* three fields again gives bytes 0-3 back.
C14_DescriptorRoundTrip ==
    (probe.call = "readPresInfo" /\ Len(probe.args[1]) >= 7) =>
        LET d == probe.args[1]
        IN  /\ probe.result # Undefined
            /\ probe.result.format = d[1]
            /\ probe.result.exponent = (IF d[2] >= 128 THEN d[2] - 256 ELSE d[2])
            /\ probe.result.unit = d[3] + 256 * d[4]
            /\ \A other \in ProbeDescriptors :
                  (Len(other) >= 7 /\ SubSeq(other, 1, 4) = SubSeq(d, 1, 4))
                      => readPresInfo(other) = probe.result
            /\ encodePresInfo(probe.result) = SubSeq(d, 1, 4)

\* UInt8 with exponent -2 (byte 0xFE), unit 0x272F, and a namespace and
\* description that differ from the other descriptors with these four bytes
C14_Witness ==
    /\ probe.call = "readPresInfo"
    /\ probe.args[1] = <<4, 254, 47, 39, 2, 255, 7>>
    /\ probe.result = [format |-> 4, exponent |-> 0 - 2, unit |-> 10031]
    /\ encodePresInfo(probe.result) = <<4, 254, 47, 39>>

(***************************************************************************)
(* Properties: cacheValue                                                  *)
(***************************************************************************)
\* C16: cacheValue with an id that is not in the registry creates no record
\* and leaves every record and the order of the registry as they were; with
\* an id of the registry it changes the lastEntry of that record and nothing
\* else.
C16_UnknownIdNoOp ==
    probe.call = "cacheValue" =>
        LET list == probe.args[1]
            characteristicUuid == probe.args[2]
            after == probe.result
        IN  IF ~MapHas(list, characteristicUuid)
            THEN after = list
            ELSE /\ MapKeys(after) = MapKeys(list)
                 /\ \A i \in 1..Len(list) :
                       IF list[i].key = characteristicUuid
                       THEN /\ after[i].val.lastEntry = probe.args[3]
                            /\ after[i].val.name = list[i].val.name
                            /\ after[i].val.serviceName = list[i].val.serviceName
                            /\ after[i].val.presInfo = list[i].val.presInfo
                            /\ DOMAIN after[i].val = DOMAIN list[i].val
                       ELSE after[i] = list[i]

\* the id of no record is cached into the registry of two records, with a
\* value string that none of them holds
C16_Witness ==
    /\ probe.call = "cacheValue"
    /\ Len(probe.args[1]) = 2
    /\ probe.args[2] = "2a1c"
    /\ ~MapHas(probe.args[1], probe.args[2])
    /\ probe.args[3] = Str("0.03")
    /\ probe.result = probe.args[1]

(***************************************************************************)
(* Properties: Boolean format                                              *)
(***************************************************************************)
\* C17: for the Boolean format and a buffer of one byte or more readValue
\* returns true exactly when byte 0 is not zero, and formatValue returns the
\* boolean it is given, whatever the exponent of the descriptor: the value is
\* neither scaled nor formatted as a fixed-point string.
C17_BooleanPassthrough ==
    /\ (/\ probe.call = "readValue"
        /\ probe.args[2].format = BLE_FORMAT_BOOLEAN
        /\ Len(probe.args[1]) >= 1)
          => probe.result = Bool(probe.args[1][1] # 0)
    /\ (/\ probe.call = "formatValue"
        /\ probe.args[2].format = BLE_FORMAT_BOOLEAN
        /\ probe.args[1].kind = "boolean")
          => probe.result = probe.args[1]

\* the value true of a Boolean characteristic whose descriptor carries the
\* exponent -2 has gone through readValue and formatValue
C17_Witness ==
    /\ probe.call = "formatValue"
    /\ probe.args[2].format = BLE_FORMAT_BOOLEAN
    /\ probe.args[2].exponent = 0 - 2
    /\ probe.args[1] = Bool(TRUE)
    /\ probe.result = Bool(TRUE)

(***************************************************************************)
(* Properties: rows of the log and the logStart before them                *)
(***************************************************************************)
\* C15: right after logStart the log is empty, and a step that is not a
\* logStart puts a row into the log only if it is a tick writing the row of
\* its own timestamp: every row of the log was written by a tick that fired
\* after the most recent logStart (snapshots holds the ticks since then).
C15_StartClearsPrevious ==
    [][ /\ logStart => log' = << >>
        /\ ~logStart =>
             \A r \in 1..Len(log') :
                \/ \E q \in 1..Len(log) : log[q] = log'[r]
                \/ /\ Tick
                   /\ log'[r].key = printTimestamp(now)
                   /\ log'[r].val = logEntryOf(readCharacteristicList)
        /\ \A r \in 1..Len(log') : log'[r].key \in DOMAIN snapshots' ]_vars

\* the second logStart has just emptied a log that held rows
C15_Witness ==
    /\ lastOutcome = "cleared"
    /\ log = << >>
    /\ snapshots = EmptyFcn
    /\ timerCount = 2
    /\ logTimer \in timers

(***************************************************************************)
(* Properties: registering an id again                                     *)
(***************************************************************************)
\* C18: when initReadCharacteristic registers an id that the registry holds
\* already, the record of that id is replaced where it stands: the ids and
\* their order are as before, so is the number of records, no other record
\* is modified, and the record of the id is the one of the new registration.
C18_ReregisterInPlace ==
    [][\A t \in tasks : \A valDataView \in Buffers(t.uuid) :
          (/\ initReadCharacteristic(t, valDataView)
           /\ MapHas(readCharacteristicList, t.uuid))
             => /\ Len(readCharacteristicList') = Len(readCharacteristicList)
                /\ MapKeys(readCharacteristicList') = MapKeys(readCharacteristicList)
                /\ \A i \in 1..Len(readCharacteristicList) :
                      IF readCharacteristicList[i].key = t.uuid
                      THEN /\ readCharacteristicList'[i].val.presInfo = t.presInfo
                           /\ readCharacteristicList'[i].val.name = NameOf(t.uuid)
                           /\ readCharacteristicList'[i].val.serviceName
                                 = ServiceOf(t.uuid)
                      ELSE readCharacteristicList'[i] = readCharacteristicList[i]
      ]_vars

\* the battery level, registered first of two, has just been registered
\* again: it is still the first record, with the value read at the second
\* registration, and the registry still has two records
C18_Witness ==
    /\ lastOutcome = "reregistered"
    /\ Len(readCharacteristicList) = 2
    /\ MapKeys(readCharacteristicList) = <<"2a19", "2a6e">>
    /\ firstSeen = <<"2a19", "2a6e">>
    /\ readCharacteristicList[1].val.lastEntry = Str("81")
    /\ readCharacteristicList[2].val.lastEntry = Str("23.45")

(***************************************************************************)
(* Properties: the buttons and the interval                                *)
(***************************************************************************)
\* C19: whenever an interval of logStart is running the start button is
\* disabled and the stop button is enabled, and no more than one interval is
\* running.
C19_StartDisabledWhileLogging ==
    /\ timers # {} => (bttnLogStart /\ ~bttnLogStop)
    /\ Cardinality(timers) <= 1

(***************************************************************************)
(* Properties: order of the rows.  printTimestamp writes the fields of the *)
(* clock reading most significant first, zero-padded, so within the range  *)
(* of the model the order of the timestamps is the order of the readings   *)
(* (snapshots[timestamp].at) they were printed from.                       *)
(***************************************************************************)
\* the clock reading the timestamp of row r was printed from
ReadingOf(theLog, taken, r) == taken[theLog[r].key].at

\* C20: with a clock that does not go back, the rows of the log, in the
\* order the log iterates them, have strictly increasing timestamps, each the
\* print of its tick's clock reading; a tick whose timestamp is that of the
\* previous tick replaces the row, which stays where it was (the last row),
\* and the other rows stay as they were.
C20_ChronologicalOrder ==
    [][ /\ \A r \in 1..Len(log') :
              /\ log'[r].key \in DOMAIN snapshots'
              /\ log'[r].key = printTimestamp(ReadingOf(log', snapshots', r))
        /\ \A r1, r2 \in 1..Len(log') :
              r1 < r2 => ReadingOf(log', snapshots', r1) < ReadingOf(log', snapshots', r2)
        /\ (Tick /\ MapHas(log, printTimestamp(now)))
              => /\ MapKeys(log') = MapKeys(log)
                 /\ log'[Len(log')].key = printTimestamp(now)
                 /\ \A r \in 1..(Len(log) - 1) : log'[r] = log[r]
      ]_vars

\* four rows for the four seconds of the clock, the last one written twice:
\* the second tick of that second found the battery level at 81
C20_Witness ==
    /\ lastOutcome = "overwrote"
    /\ Len(log) = 4
    /\ MapKeys(log) = [r \in 1..4 |-> printTimestamp(r - 1)]
    /\ now = 3
    /\ MapGet(log[4].val, "2a19") = Str("81")
    /\ MapGet(log[3].val, "2a19") = Str("80")

(***************************************************************************)
(* Properties: exports                                                     *)
(***************************************************************************)
\* C21: a logging session is exported once at most: once a logStop has
\* returned, no step hands a log to saveLog until the next logStart; in
\* particular the logStop that onDisconnect runs after the user has stopped
\* logging exports nothing.
C21_ExportedOncePerSession ==
    [][stopped => lastOutcome' # "saved"]_vars

(***************************************************************************)
(* Properties: the registry and the connection attempts                    *)
(***************************************************************************)
\* C22: after bluetoothConnect has cleared the registry for a new attempt, a
\* discovery promise that was pending from an earlier attempt adds no record
\* and changes none: the registry holds characteristics of the new attempt
\* only.
C22_SessionIsolation ==
    [][\A t \in tasks : \A valDataView \in Buffers(t.uuid) :
          (initReadCharacteristic(t, valDataView) /\ t.stale)
             => readCharacteristicList' = readCharacteristicList]_vars

\* C23: whenever a logStop prints the log, every id of every row is an id of
\* the registry, so that every value a tick captured lands in a column of
\* the CSV.
C23_NoValueLostAtExport ==
    [][lastOutcome' = "saved" =>
          \A r \in 1..Len(log) :
              Range(MapKeys(log[r].val)) \subseteq Range(MapKeys(readCharacteristicList))
      ]_vars

(***************************************************************************)
(* Properties: registration and the first value                            *)
(***************************************************************************)
\* the value strings a characteristic with this presentation can show: its
\* payloads, read and formatted
ShownValues(uuid, presInfo) ==
    { valStr[presInfo][dataView] : dataView \in Buffers(uuid) }

\* while an interval is running, every record of the registry whose value
\* cell is in the document holds a value string, not the empty lastEntry
ShownRecordsHoldValue ==
    timers # {} =>
        \A i \in 1..Len(readCharacteristicList) :
            LET uuid == readCharacteristicList[i].key
                info == readCharacteristicList[i].val
            IN  uuid \in servicesArea
                   => /\ info.lastEntry # Str("")
                      /\ info.lastEntry \in ShownValues(uuid, info.presInfo)

\* C24: in every state in which a tick can fire, every registered
\* characteristic whose value cell is in the document holds the formatted
\* value of its first read or of a notification, never the empty lastEntry it
\* is created with; a tick therefore writes no empty entry for such a
\* characteristic.
C24_RegisteredWithValue ==
    [][ /\ ShownRecordsHoldValue'
        /\ Tick =>
             \A r \in 1..Len(log') :
                log'[r].key = printTimestamp(now)
                   => \A uuid \in servicesArea :
                         MapHas(log'[r].val, uuid)
                            => MapGet(log'[r].val, uuid) \in
                                  ShownValues(uuid,
                                      MapGet(readCharacteristicList, uuid).presInfo)
      ]_vars

\* the temperature was registered between two ticks of a running interval:
\* the first row has the battery level only, the second row has both values
C24_Witness ==
    /\ timers # {}
    /\ servicesArea = Uuids
    /\ Len(log) = 2
    /\ MapKeys(log[1].val) = <<"2a19">>
    /\ MapKeys(log[2].val) = <<"2a19", "2a6e">>
    /\ MapGet(log[2].val, "2a6e") = Str("23.45")
    /\ MapGet(readCharacteristicList, "2a6e").lastEntry = Str("23.45")

====
